---- MODULE Spec2Model ----
(***************************************************************************)
(* Smart Irrigation System, Flask dashboard (smart_irrigation_system/      *)
(* app.py): the module-level store (_sensor_data, _system_status,          *)
(* _history), the served dictionary system_status, and the four JSON       *)
(* endpoints /api/data, /api/ingest, /api/control and /api/history.        *)
(*                                                                         *)
(* JSON values are written as strings: "null", "true", "false" and the     *)
(* digits of a number ("0", "42") stand for those literals, and any other  *)
(* string stands for the JSON string with that content ("" is the empty    *)
(* string).  A JSON string body is a sequence of tokens, so that Python's  *)
(* substring test `k in payload` is "k is one of the tokens".              *)
(***************************************************************************)
EXTENDS Integers, Sequences, FiniteSets, TLC

VARIABLES
    _sensor_data,    \* app.py:27  current sensor data
    _system_status,  \* app.py:34  {"auto_mode": bool}
    _history,        \* app.py:35  list of {"timestamp", "moisture"}
    system_status,   \* app.py:20  the dictionary get_data serves
    reader_data,     \* arduino_reader.get_current_data()
    reader_history,  \* arduino_reader.get_history()
    now,             \* the clock datetime.utcnow() reads, in ticks; one tick passes
                     \* between two appends
    appended,        \* history: every entry _history.append was given, in order
    ingests,         \* history: the appends made since the process started
    last,            \* the most recent request and its response
    readings,        \* history: the readings the serial reader took since the start
    main,            \* the __main__ block: where it is, what start_reading returned
                     \* and what it printed
    _lock,           \* app.py:17  the thread that holds the lock, or Free
    th               \* the request threads: each one's request, position and response

vars == <<_sensor_data, _system_status, _history, system_status,
          reader_data, reader_history, now, appended, ingests, last,
          readings, main, _lock, th>>

store == <<_sensor_data, _system_status, _history>>

----------------------------------------------------------------------------
(* Bounds of the model *)

MaxIngest == 2      \* ingest calls that reach the store in one run
MaxKeys == 2        \* keys of a JSON object body
MaxReadings == 1    \* readings the serial reader takes in one run
NThreads == 2       \* request threads that run at the same time

(* Program constants *)

_MAX_HISTORY == 500
HistoryTail == 10   \* get_history()[-10:]

----------------------------------------------------------------------------
(* JSON and Python values *)

True == "true"
False == "false"
None == "null"

SensorKeys == {"moisture", "raw_value", "pump_status", "threshold_low", "threshold_high"}
ControlKeys == {"auto_mode", "manual_pump"}
AllKeys == SensorKeys \cup ControlKeys

\* the values a body may give each key
ValuesOf ==
    [k \in AllKeys |->
        CASE k = "moisture"       -> {"42", "55"}
          [] k = "raw_value"      -> {"1022"}
          [] k = "pump_status"    -> {True}
          [] k = "threshold_low"  -> {"25"}
          [] k = "threshold_high" -> {"70"}
          [] k = "auto_mode"      -> {True, "0"}
          [] OTHER                -> {False, "on"}]

EmptyMap == [k \in {} |-> None]

Body(kind, val, elems, map) == [kind |-> kind, val |-> val, elems |-> elems, map |-> map]

MissingBody == Body("missing", "", <<>>, EmptyMap)
MalformedBody == Body("malformed", "", <<>>, EmptyMap)
JNull == Body("null", None, <<>>, EmptyMap)
JBool(b) == Body("bool", b, <<>>, EmptyMap)
JNumber(n) == Body("number", n, <<>>, EmptyMap)
JString(tokens) == Body("string", "", tokens, EmptyMap)
JArray(elems) == Body("array", "", elems, EmptyMap)
JObject(map) == Body("object", "", <<>>, map)

\* the JSON objects with at most MaxKeys keys, all among `keys`
ObjectBodies(keys) ==
    { JObject(m) : m \in UNION { { f \in [S -> UNION { ValuesOf[k] : k \in S }] :
                                       \A k \in S : f[k] \in ValuesOf[k] } :
                                 S \in { T \in SUBSET keys : Cardinality(T) <= MaxKeys } } }

\* no body, an unparsable body, and JSON values that are not objects
OtherBodies ==
    { MissingBody, MalformedBody, JNull, JBool(True), JNumber("0"), JNumber("7"),
      JString(<<"abc">>), JString(<<"moisture">>),
      JArray(<<>>), JArray(<<"1">>), JArray(<<"manual_pump">>) }

\* each handler is also sent a key that only the other handler knows
IngestBodies == ObjectBodies(SensorKeys \cup {"manual_pump"}) \cup OtherBodies
ControlBodies == ObjectBodies(ControlKeys \cup {"pump_status"}) \cup OtherBodies

----------------------------------------------------------------------------
(* request.get_json(force=True, silent=True) and Python's operators on its result *)

\* a missing or unparsable body gives None (silent=True); JSON null is None too
get_json(body) == IF body.kind \in {"missing", "malformed"} THEN JNull ELSE body

\* `not payload`: None, False, 0, "", [] and {} are falsy
Falsy(payload) ==
    \/ payload.kind = "null"
    \/ payload.kind = "bool" /\ payload.val = False
    \/ payload.kind = "number" /\ payload.val = "0"
    \/ payload.kind \in {"string", "array"} /\ payload.elems = <<>>
    \/ payload.kind = "object" /\ DOMAIN payload.map = {}

\* `k in payload` raises TypeError on None, a bool or a number
InRaises(payload) == payload.kind \in {"null", "bool", "number"}

\* `k in payload`: a key of a dict, an element of a list, a substring of a str
In(k, payload) ==
    CASE payload.kind = "object" -> k \in DOMAIN payload.map
      [] payload.kind \in {"array", "string"} ->
            \E i \in 1..Len(payload.elems) : payload.elems[i] = k
      [] OTHER -> FALSE

\* `payload[k]` with a str key raises TypeError on a list or a str
GetItemRaises(payload) == payload.kind \in {"array", "string"}

\* bool(v)
Bool(v) == IF v \in {None, False, "0", ""} THEN False ELSE True

\* s[:n]
LastN_First(s, n) == IF Len(s) <= n THEN s ELSE SubSeq(s, 1, n)

\* s[-n:]
LastN(s, n) == IF Len(s) <= n THEN s ELSE SubSeq(s, Len(s) - n + 1, Len(s))

----------------------------------------------------------------------------
(* The bodies of the handlers *)

\* the check left out
Rejected_Never(payload) == FALSE

\* `if not payload:` of ingest and of control
Rejected(payload) == Falsy(payload)

\* lines 69-71: the loop raises at the first recognised key a non-dict holds
IngestRaises(payload) ==
    \/ InRaises(payload)
    \/ GetItemRaises(payload) /\ \E k \in SensorKeys : In(k, payload)

\* `_sensor_data[k] = payload.get(k)` for every k
ApplySensorUpdate_Replace(sd, payload) ==
    [k \in SensorKeys |-> IF In(k, payload) THEN payload.map[k] ELSE None]

\* pump_status coerced with bool(), as control does for manual_pump
ApplySensorUpdate_Coerce(sd, payload) ==
    [k \in SensorKeys |->
        IF In(k, payload)
        THEN IF k = "pump_status" THEN Bool(payload.map[k]) ELSE payload.map[k]
        ELSE sd[k]]

\* lines 69-71
ApplySensorUpdate(sd, payload) ==
    [k \in SensorKeys |-> IF In(k, payload) THEN payload.map[k] ELSE sd[k]]

\* an entry that carries the timestamp only
HistoryEntry_NoMoisture(t, sd) == [timestamp |-> t, moisture |-> None]

\* lines 74-77
HistoryEntry(t, sd) == [timestamp |-> t, moisture |-> sd["moisture"]]

\* `del _history[0: len(_history) - _MAX_HISTORY - 1]`
Truncate_OffByOne(h) ==
    IF Len(h) > _MAX_HISTORY
    THEN SubSeq(h, Len(h) - _MAX_HISTORY, Len(h))
    ELSE h

\* `del _history[_MAX_HISTORY:]`
Truncate_DropNewest(h) ==
    IF Len(h) > _MAX_HISTORY
    THEN SubSeq(h, 1, _MAX_HISTORY)
    ELSE h

\* lines 79-80
Truncate(h) ==
    IF Len(h) > _MAX_HISTORY
    THEN SubSeq(h, Len(h) - _MAX_HISTORY + 1, Len(h))
    ELSE h

\* lines 74-80
AppendHistory(h, entry) == Truncate(Append(h, entry))

\* lines 94-101
ControlRaises(payload) ==
    \/ InRaises(payload)
    \/ GetItemRaises(payload) /\ \E k \in ControlKeys : In(k, payload)

\* the two `if` blocks in the other order
ApplyControl_ManualFirst(ss, sd, payload) ==
    LET ss1 == IF In("manual_pump", payload)
               THEN [ss EXCEPT !["auto_mode"] = False]
               ELSE ss
        sd1 == IF In("manual_pump", payload)
               THEN [sd EXCEPT !["pump_status"] = Bool(payload.map["manual_pump"])]
               ELSE sd
    IN  IF In("auto_mode", payload)
        THEN <<[ss1 EXCEPT !["auto_mode"] = Bool(payload.map["auto_mode"])], sd1>>
        ELSE <<ss1, sd1>>

\* setting auto_mode also releases the pump
ApplyControl_AutoStopsPump(ss, sd, payload) ==
    LET ss1 == IF In("auto_mode", payload)
               THEN [ss EXCEPT !["auto_mode"] = Bool(payload.map["auto_mode"])]
               ELSE ss
        sd1 == IF In("auto_mode", payload)
               THEN [sd EXCEPT !["pump_status"] = False]
               ELSE sd
    IN  IF In("manual_pump", payload)
        THEN <<[ss1 EXCEPT !["auto_mode"] = False],
               [sd1 EXCEPT !["pump_status"] = Bool(payload.map["manual_pump"])]>>
        ELSE <<ss1, sd1>>

\* control also runs ingest's update loop
ApplyControl_AllKeys(ss, sd, payload) ==
    LET ss1 == IF In("auto_mode", payload)
               THEN [ss EXCEPT !["auto_mode"] = Bool(payload.map["auto_mode"])]
               ELSE ss
        sd1 == [k \in SensorKeys |->
                   IF payload.kind = "object" /\ In(k, payload) THEN payload.map[k] ELSE sd[k]]
    IN  IF In("manual_pump", payload)
        THEN <<[ss1 EXCEPT !["auto_mode"] = False],
               [sd1 EXCEPT !["pump_status"] = Bool(payload.map["manual_pump"])]>>
        ELSE <<ss1, sd1>>

\* lines 94-95 then 97-101, on the pair <<_system_status, _sensor_data>>
ApplyControl(ss, sd, payload) ==
    LET ss1 == IF In("auto_mode", payload)
               THEN [ss EXCEPT !["auto_mode"] = Bool(payload.map["auto_mode"])]
               ELSE ss
    IN  IF In("manual_pump", payload)
        THEN <<[ss1 EXCEPT !["auto_mode"] = False],
               [sd EXCEPT !["pump_status"] = Bool(payload.map["manual_pump"])]>>
        ELSE <<ss1, sd>>

InvalidJson == [error |-> "invalid json"]
ServerError == [error |-> "TypeError"]

Response(op, body, status, resp) == [op |-> op, body |-> body, status |-> status, resp |-> resp]

----------------------------------------------------------------------------
(* The state at start, and states a run of ingest calls leaves *)

DefaultSensorData ==
    [moisture |-> None, raw_value |-> None, pump_status |-> False,
     threshold_low |-> "30", threshold_high |-> "60"]

\* n ingest calls of {"manual_pump": false}, one per clock tick, from the start state
Prefill(n) == [i \in 1..n |-> [timestamp |-> i, moisture |-> None]]

\* the readings the serial reader holds after k readings of "10"
ReaderPrefill(k) == [i \in 1..k |-> [timestamp |-> i - k - 1, moisture |-> "10"]]

Threads == 1..NThreads
Free == 0

\* a request thread that has no request yet
Idle == [pc |-> "idle", op |-> "none", body |-> MissingBody, i |-> 0, appends |-> 0,
         pre |-> <<>>, post |-> <<>>, status |-> 0, resp |-> <<>>]

\* __main__ (lines 110-120) once app.run serves, after start_reading returned true
MainServing ==
    [pc |-> "serving", calls |-> 1, ok |-> True,
     printed |-> <<"Arduino reader started successfully", "Starting Flask server...",
                   "Dashboard will be available at: http://127.0.0.1:5000">>]

\* the module state after n such ingest calls and k readings, no request running
InitData(n, k) ==
    /\ _sensor_data = DefaultSensorData
    /\ _system_status = [auto_mode |-> True]
    /\ system_status = [auto_mode |-> True, manual_override |-> False,
                        manual_pump_status |-> False]
    /\ _history = Prefill(n)
    /\ appended = Prefill(n)
    /\ now = n
    /\ ingests = 0
    /\ reader_data = IF k = 0 THEN DefaultSensorData
                     ELSE [DefaultSensorData EXCEPT !["moisture"] = "10"]
    /\ reader_history = ReaderPrefill(k)
    /\ readings = 0
    /\ last = Response("start", MissingBody, 0, [ok |-> True])
    /\ _lock = Free
    /\ th = [t \in Threads |-> Idle]

\* the state after n such calls with the server up; InitAt(0) is the state the
\* module's top level builds
InitAt(n) == InitData(n, 0) /\ main = MainServing

Init == InitAt(0)

\* one entry short of _MAX_HISTORY
InitFull == InitAt(_MAX_HISTORY - 1)

----------------------------------------------------------------------------
(* The handlers *)

\* GET /  (lines 38-41)
index ==
    /\ last' = Response("index", MissingBody, 200, [page |-> "index.html"])
    /\ UNCHANGED <<store, system_status, reader_data, reader_history, now, appended, ingests, readings, main, _lock, th>>

\* get_data copies the reader's snapshot into the store
get_data_Sync ==
    /\ last' = Response("get_data", MissingBody, 200,
                        [sensor_data |-> reader_data,
                         system_status |-> system_status,
                         history |-> LastN(reader_history, HistoryTail)])
    /\ _sensor_data' = reader_data
    /\ UNCHANGED <<_system_status, _history, system_status, reader_data, reader_history,
                   now, appended, ingests, readings, main, _lock, th>>

\* GET /api/data  (lines 43-55)
get_data ==
    /\ last' = Response("get_data", MissingBody, 200,
                        [sensor_data |-> reader_data,
                         system_status |-> system_status,
                         history |-> LastN(reader_history, HistoryTail)])
    /\ UNCHANGED <<store, system_status, reader_data, reader_history, now, appended, ingests, readings, main, _lock, th>>

\* POST /api/ingest  (lines 57-82)
ingest(body) ==
    LET payload == get_json(body) IN
    IF Rejected(payload)
    THEN /\ last' = Response("ingest", body, 400, InvalidJson)
         /\ UNCHANGED <<store, system_status, reader_data, reader_history, now, appended, ingests, readings, main, _lock, th>>
    ELSE IF IngestRaises(payload)
    THEN /\ last' = Response("ingest", body, 500, ServerError)
         /\ UNCHANGED <<store, system_status, reader_data, reader_history, now, appended, ingests, readings, main, _lock, th>>
    ELSE /\ ingests < MaxIngest
         /\ LET sd == ApplySensorUpdate(_sensor_data, payload)
                entry == HistoryEntry(now + 1, sd)
            IN  /\ _sensor_data' = sd
                /\ _history' = AppendHistory(_history, entry)
                /\ appended' = Append(appended, entry)
         /\ now' = now + 1
         /\ ingests' = ingests + 1
         /\ last' = Response("ingest", body, 200, [ok |-> True])
         /\ UNCHANGED <<_system_status, system_status, reader_data, reader_history,
                        readings, main, _lock, th>>

\* POST /api/control  (lines 84-103)
control(body) ==
    LET payload == get_json(body) IN
    IF Rejected(payload)
    THEN /\ last' = Response("control", body, 400, InvalidJson)
         /\ UNCHANGED <<store, system_status, reader_data, reader_history, now, appended, ingests, readings, main, _lock, th>>
    ELSE IF ControlRaises(payload)
    THEN /\ last' = Response("control", body, 500, ServerError)
         /\ UNCHANGED <<store, system_status, reader_data, reader_history, now, appended, ingests, readings, main, _lock, th>>
    ELSE LET r == ApplyControl(_system_status, _sensor_data, payload) IN
         /\ _system_status' = r[1]
         /\ _sensor_data' = r[2]
         /\ last' = Response("control", body, 200,
                             [ok |-> True, system_status |-> r[1], sensor_data |-> r[2]])
         /\ UNCHANGED <<_history, system_status, reader_data, reader_history, now,
                        appended, ingests, readings, main, _lock, th>>

\* GET /api/history  (lines 105-108)
get_history ==
    /\ last' = Response("get_history", MissingBody, 200, [history |-> reader_history])
    /\ UNCHANGED <<store, system_status, reader_data, reader_history, now, appended, ingests, readings, main, _lock, th>>

\* the serial reader takes a reading (arduino_reader, outside app.py)
ReaderValues == {"10"}

reader_read(m) ==
    /\ readings < MaxReadings
    /\ reader_data' = [reader_data EXCEPT !["moisture"] = m]
    /\ reader_history' = Append(reader_history, [timestamp |-> now, moisture |-> m])
    /\ readings' = readings + 1
    /\ last' = Response("reader_read", MissingBody, 0, [ok |-> True])
    /\ UNCHANGED <<store, system_status, now, appended, ingests, main, _lock, th>>

Next ==
    \/ index
    \/ get_data
    \/ \E body \in IngestBodies : ingest(body)
    \/ \E body \in ControlBodies : control(body)
    \/ get_history
    \/ \E m \in ReaderValues : reader_read(m)

Spec == Init /\ [][Next]_vars

----------------------------------------------------------------------------
(* The same handlers from a history that is nearly full.  The bodies are the *)
(* ones that differ in what they do to _history: objects with the moisture   *)
(* key or no key, and every body that is no object.                          *)

FullIngestBodies ==
    { b \in IngestBodies : DOMAIN b.map \subseteq {"moisture"} }

FullControlBodies ==
    { b \in ControlBodies : DOMAIN b.map \subseteq {"auto_mode"} }

NextFull ==
    \/ index
    \/ get_data
    \/ \E body \in FullIngestBodies : ingest(body)
    \/ \E body \in FullControlBodies : control(body)
    \/ get_history
    \/ \E m \in ReaderValues : reader_read(m)

SpecFull == InitFull /\ [][NextFull]_vars

----------------------------------------------------------------------------------------------------------------------------------------
(* The same handlers, each sent the keys the other one writes, and the two   *)
(* writers of pump_status sent values that are no booleans.                  *)

Obj1(k, v) == JObject([x \in {k} |-> v])
Obj2(k1, v1, k2, v2) == JObject([x \in {k1, k2} |-> IF x = k1 THEN v1 ELSE v2])

CrossIngestBodies ==
    { Obj1("pump_status", "on"), Obj1("pump_status", "0"), Obj1("auto_mode", "0"),
      Obj1("manual_pump", "on"), Obj2("moisture", "55", "auto_mode", False),
      Obj2("auto_mode", "0", "manual_pump", "on"), MissingBody }

CrossControlBodies ==
    { Obj1("manual_pump", "on"), Obj1("manual_pump", False), Obj1("pump_status", True),
      Obj2("auto_mode", True, "moisture", "42"), Obj2("manual_pump", "0", "raw_value", "1022"),
      Obj2("threshold_low", "25", "threshold_high", "70"), JArray(<<"moisture">>) }

NextCross ==
    \/ get_data
    \/ \E body \in CrossIngestBodies : ingest(body)
    \/ \E body \in CrossControlBodies : control(body)
    \/ get_history

SpecCross == Init /\ [][NextCross]_vars

----------------------------------------------------------------------------
(* The same handlers while the serial reader holds about HistoryTail readings *)

InitReader ==
    /\ \E k \in {HistoryTail - 1, HistoryTail} : InitData(0, k)
    /\ main = MainServing

NextReader ==
    \/ get_data
    \/ \E body \in CrossIngestBodies : ingest(body)
    \/ \E body \in CrossControlBodies : control(body)
    \/ get_history
    \/ \E m \in ReaderValues : reader_read(m)

SpecReader == InitReader /\ [][NextReader]_vars

----------------------------------------------------------------------------
(* The __main__ block (lines 110-120), then the handlers once app.run serves *)

\* the process at the `if __name__ == '__main__':` line
MainStart == [pc |-> "start", calls |-> 0, ok |-> None, printed |-> <<>>]

\* line 112: arduino_reader.start_reading() returns ok
start_reading(ok) ==
    /\ main.pc = "start"
    /\ main' = [main EXCEPT !.pc = "report", !.calls = @ + 1, !.ok = ok]
    /\ UNCHANGED <<store, system_status, reader_data, reader_history, now, appended,
                   ingests, last, readings, _lock, th>>

\* a failed start ends the process
AfterReport_Abort(ok) == IF ok = True THEN "run" ELSE "exit"

\* where __main__ goes after the if/else of lines 112-115
AfterReport(ok) == "run"

\* lines 112-115: one of the two messages is printed
report ==
    /\ main.pc = "report"
    /\ main' = [main EXCEPT
                  !.pc = AfterReport(main.ok),
                  !.printed = Append(@, IF main.ok = True
                                        THEN "Arduino reader started successfully"
                                        ELSE "Failed to start Arduino reader")]
    /\ UNCHANGED <<store, system_status, reader_data, reader_history, now, appended,
                   ingests, last, readings, _lock, th>>

\* lines 117-120: app.run starts the server
app_run ==
    /\ main.pc = "run"
    /\ main' = [main EXCEPT
                  !.pc = "serving",
                  !.printed = @ \o <<"Starting Flask server...",
                                     "Dashboard will be available at: http://127.0.0.1:5000">>]
    /\ UNCHANGED <<store, system_status, reader_data, reader_history, now, appended,
                   ingests, last, readings, _lock, th>>

MainStep ==
    \/ \E ok \in {True, False} : start_reading(ok)
    \/ report
    \/ app_run

InitMain == InitData(0, 0) /\ main = MainStart

NextMain ==
    \/ \E ok \in {True, False} : start_reading(ok)
    \/ report
    \/ app_run
    \/ main.pc = "serving" /\ get_data
    \/ main.pc = "serving" /\ \E body \in CrossIngestBodies : ingest(body)
    \/ main.pc = "serving" /\ \E body \in CrossControlBodies : control(body)

\* the main thread is never held back: it runs until app.run serves
SpecMain == InitMain /\ [][NextMain]_vars /\ WF_vars(MainStep)

----------------------------------------------------------------------------
(* Concurrent requests: one thread per request, one step per access to the
   shared dictionaries, the list and the lock *)

\* the tuple of line 69
KeyOrder == <<"moisture", "raw_value", "pump_status", "threshold_low", "threshold_high">>

\* the assignments of lines 69-71, in the order the loop makes them
IngestWrites(payload) ==
    LET Has(k) == In(k, payload)
        keys == SelectSeq(KeyOrder, Has)
    IN  [j \in 1..Len(keys) |->
            [dict |-> "_sensor_data", key |-> keys[j], val |-> payload.map[keys[j]]]]

\* the assignments of lines 95, 99 and 101, in order
ControlWrites(payload) ==
    (IF In("auto_mode", payload)
     THEN <<[dict |-> "_system_status", key |-> "auto_mode",
             val |-> Bool(payload.map["auto_mode"])]>>
     ELSE <<>>)
    \o
    (IF In("manual_pump", payload)
     THEN <<[dict |-> "_sensor_data", key |-> "pump_status",
             val |-> Bool(payload.map["manual_pump"])],
            [dict |-> "_system_status", key |-> "auto_mode", val |-> False]>>
     ELSE <<>>)

Writes(op, payload) ==
    IF op = "ingest" THEN IngestWrites(payload) ELSE ControlWrites(payload)

Raises(op, payload) ==
    IF op = "ingest" THEN IngestRaises(payload) ELSE ControlRaises(payload)

\* a lock that anyone may take at any time
CanAcquire_Always(l) == TRUE

\* Lock.acquire, entering `with _lock:` (lines 67, 93)
CanAcquire(l) == l = Free

\* a lock that stays held when the block raises
Exit_KeepOnError(l, raised) == IF raised THEN l ELSE Free

\* Lock.__exit__, leaving `with _lock:` normally or by an exception
Exit(l, raised) == Free

\* lines 63-65, 89-91: the request arrives, its body is parsed and tested
begin(t, op, body) ==
    /\ main.pc = "serving"
    /\ th[t].pc = "idle"
    /\ IF Rejected(get_json(body))
       THEN /\ th' = [th EXCEPT ![t] = [@ EXCEPT !.pc = "done", !.op = op, !.body = body,
                                                 !.status = 400, !.resp = InvalidJson]]
            /\ last' = Response(op, body, 400, InvalidJson)
       ELSE /\ th' = [th EXCEPT ![t] = [@ EXCEPT !.pc = "wait", !.op = op, !.body = body]]
            /\ UNCHANGED last
    /\ UNCHANGED <<store, system_status, reader_data, reader_history, now, appended,
                   ingests, readings, main, _lock>>

\* lines 67, 93: `with _lock:` is entered
acquire(t) ==
    /\ th[t].pc = "wait"
    /\ CanAcquire(_lock)
    /\ _lock' = t
    /\ th' = [th EXCEPT ![t] = [@ EXCEPT !.pc = "locked", !.pre = store]]
    /\ UNCHANGED <<store, system_status, reader_data, reader_history, now, appended,
                   ingests, last, readings, main>>

\* `k in payload` or `payload[k]` raises TypeError: the block is left, the lock released
unwind(t) ==
    /\ th[t].pc = "locked"
    /\ Raises(th[t].op, get_json(th[t].body))
    /\ _lock' = Exit(_lock, TRUE)
    /\ th' = [th EXCEPT ![t] = [@ EXCEPT !.pc = "respond", !.status = 500]]
    /\ UNCHANGED <<store, system_status, reader_data, reader_history, now, appended,
                   ingests, last, readings, main>>

\* the next assignment of lines 71, 95, 99, 101
write(t) ==
    LET w == Writes(th[t].op, get_json(th[t].body)) IN
    /\ th[t].pc = "locked"
    /\ ~Raises(th[t].op, get_json(th[t].body))
    /\ th[t].i < Len(w)
    /\ LET a == w[th[t].i + 1] IN
       IF a.dict = "_sensor_data"
       THEN /\ _sensor_data' = [_sensor_data EXCEPT ![a.key] = a.val]
            /\ UNCHANGED _system_status
       ELSE /\ _system_status' = [_system_status EXCEPT ![a.key] = a.val]
            /\ UNCHANGED _sensor_data
    /\ th' = [th EXCEPT ![t] = [@ EXCEPT !.i = @ + 1]]
    /\ UNCHANGED <<_history, system_status, reader_data, reader_history, now, appended,
                   ingests, last, readings, main, _lock>>

\* lines 74-80: the entry is appended and the list truncated
append(t) ==
    /\ th[t].pc = "locked"
    /\ th[t].op = "ingest"
    /\ ~Raises(th[t].op, get_json(th[t].body))
    /\ th[t].i = Len(Writes(th[t].op, get_json(th[t].body)))
    /\ th[t].appends = 0
    /\ LET entry == HistoryEntry(now + 1, _sensor_data) IN
       /\ _history' = AppendHistory(_history, entry)
       /\ appended' = Append(appended, entry)
    /\ now' = now + 1
    /\ ingests' = ingests + 1
    /\ th' = [th EXCEPT ![t] = [@ EXCEPT !.appends = 1]]
    /\ UNCHANGED <<_sensor_data, _system_status, system_status, reader_data,
                   reader_history, last, readings, main, _lock>>

\* the end of the `with _lock:` block (after line 80, after line 101)
release(t) ==
    /\ th[t].pc = "locked"
    /\ ~Raises(th[t].op, get_json(th[t].body))
    /\ th[t].i = Len(Writes(th[t].op, get_json(th[t].body)))
    /\ th[t].op = "ingest" => th[t].appends = 1
    /\ _lock' = Exit(_lock, FALSE)
    /\ th' = [th EXCEPT ![t] = [@ EXCEPT !.pc = "respond", !.post = store, !.status = 200]]
    /\ UNCHANGED <<store, system_status, reader_data, reader_history, now, appended,
                   ingests, last, readings, main>>

\* lines 82, 103: jsonify builds the response, outside the lock; the TypeError
\* that left the block is answered with 500
respond(t) ==
    /\ th[t].pc = "respond"
    /\ LET resp == IF th[t].status = 500 THEN ServerError
                   ELSE IF th[t].op = "ingest" THEN [ok |-> True]
                   ELSE [ok |-> True, system_status |-> _system_status,
                         sensor_data |-> _sensor_data]
       IN  /\ th' = [th EXCEPT ![t] = [@ EXCEPT !.pc = "done", !.resp = resp]]
           /\ last' = Response(th[t].op, th[t].body, th[t].status, resp)
    /\ UNCHANGED <<store, system_status, reader_data, reader_history, now, appended,
                   ingests, readings, main, _lock>>

\* what a request thread does once its request is in
run(t) ==
    \/ acquire(t)
    \/ unwind(t)
    \/ write(t)
    \/ append(t)
    \/ release(t)
    \/ respond(t)

ThreadIngestBodies ==
    { Obj1("moisture", "42"),
      Obj2("moisture", "55", "pump_status", True),
      Obj1("raw_value", "1022"),
      MissingBody,
      JArray(<<"moisture">>) }

ThreadControlBodies ==
    { Obj1("manual_pump", "on"),
      Obj2("auto_mode", True, "manual_pump", False),
      JNull,
      JArray(<<"manual_pump">>) }

NextThreads ==
    \/ \E t \in Threads : \E body \in ThreadIngestBodies : begin(t, "ingest", body)
    \/ \E t \in Threads : \E body \in ThreadControlBodies : begin(t, "control", body)
    \/ \E t \in Threads : acquire(t)
    \/ \E t \in Threads : unwind(t)
    \/ \E t \in Threads : write(t)
    \/ \E t \in Threads : append(t)
    \/ \E t \in Threads : release(t)
    \/ \E t \in Threads : respond(t)

\* every request thread that can take a step is scheduled again
SpecThreads == Init /\ [][NextThreads]_vars /\ \A t \in Threads : WF_vars(run(t))

----------------
(* Properties *)

Accepted(op) == last.op = op /\ last.status = 200
IsObject(body) == body.kind = "object"
HasKey(body, k) == IsObject(body) /\ k \in DOMAIN body.map

\* C1: in every reachable state the length of _history is at most _MAX_HISTORY.
C1_HistoryBounded == Len(_history) <= _MAX_HISTORY

\* more than _MAX_HISTORY entries were appended and _history is full
C1_Witness == Len(appended) > _MAX_HISTORY /\ Len(_history) = _MAX_HISTORY

\* C2: after n appends _history is exactly the last min(n, _MAX_HISTORY) entries
\* ever appended, in order and unchanged, and the entry an accepted ingest has
\* just made (the clock's reading, the current moisture) is its last entry.
C2_Fifo ==
    LET n == Len(appended)
        m == IF n < _MAX_HISTORY THEN n ELSE _MAX_HISTORY
    IN  /\ Len(_history) = m
        /\ \A i \in 1..m : _history[i] = appended[n - m + i]
        /\ Accepted("ingest") =>
              /\ m > 0
              /\ _history[m] = [timestamp |-> now, moisture |-> _sensor_data["moisture"]]

\* the oldest entry was evicted and the newest, with a reading, is kept
C2_Witness ==
    /\ Len(appended) = _MAX_HISTORY + 1
    /\ Accepted("ingest")
    /\ _history[1] = appended[2]
    /\ _history[_MAX_HISTORY].moisture = "55"
    /\ _history[_MAX_HISTORY - 1].moisture = "42"

\* C3: an accepted ingest sets each of the five sensor fields whose key the
\* payload holds to the payload's value, keeps every other sensor field, and
\* leaves _system_status alone.
C3_PartialUpdate ==
    [][ (last'.op = "ingest" /\ last'.status = 200) =>
            /\ DOMAIN _sensor_data' = SensorKeys
            /\ \A k \in SensorKeys :
                  _sensor_data'[k] = IF HasKey(last'.body, k)
                                     THEN last'.body.map[k]
                                     ELSE _sensor_data[k]
            /\ _system_status' = _system_status
      ]_vars

\* {"moisture": 42} was ingested after raw_value had been set: raw_value is kept
C3_Witness ==
    /\ Accepted("ingest")
    /\ IsObject(last.body)
    /\ DOMAIN last.body.map = {"moisture"}
    /\ _sensor_data["moisture"] = "42"
    /\ _sensor_data["raw_value"] = "1022"
    /\ _sensor_data["threshold_low"] = "30"

C5_AutoModeOnly ==
    [][ (/\ last'.op = "control"
         /\ last'.status = 200
         /\ HasKey(last'.body, "auto_mode")
         /\ ~HasKey(last'.body, "manual_pump")) =>
            /\ _system_status'["auto_mode"] = Bool(last'.body.map["auto_mode"])
            /\ _sensor_data'["pump_status"] = _sensor_data["pump_status"]
      ]_vars

\* {"auto_mode": 0} was accepted while the pump was on: the pump is still on
C5_Witness ==
    /\ Accepted("control")
    /\ IsObject(last.body)
    /\ DOMAIN last.body.map = {"auto_mode"}
    /\ last.body.map["auto_mode"] = "0"
    /\ _system_status["auto_mode"] = False
    /\ _sensor_data["pump_status"] = True

\* C6: a POST to ingest or control with no body or an unparsable body is
\* answered 400 {"error": "invalid json"} and leaves the store as it was.
C6_InvalidJsonRejected ==
    [][ (last'.op \in {"ingest", "control"} /\ last'.body.kind \in {"missing", "malformed"}) =>
            /\ last'.status = 400
            /\ DOMAIN last'.resp = {"error"}
            /\ last'.resp.error = "invalid json"
            /\ UNCHANGED <<store, appended>>
      ]_vars

\* an unparsable body was sent to control after the store had been written
C6_Witness ==
    /\ last.op = "control"
    /\ last.body.kind = "malformed"
    /\ last.status = 400
    /\ Len(_history) > 0
    /\ _sensor_data["moisture"] = "55"

\* C7: a POST to ingest whose body is JSON but no object (a non-empty array, a
\* non-zero number, a non-empty string, true) is answered 400 and leaves the
\* store as it was.
C7_NonMappingRejected ==
    [][ (/\ last'.op = "ingest"
         /\ last'.body.kind \in {"bool", "number", "string", "array"}
         /\ ~Falsy(last'.body)) =>
            /\ last'.status = 400
            /\ UNCHANGED <<store, appended>>
      ]_vars

\* C8: every POST to ingest or control whose body is a JSON object, the empty
\* object included, is answered 200 with ok true.
C8_MappingAccepted ==
    (last.op \in {"ingest", "control"} /\ IsObject(last.body)) =>
        /\ last.status = 200
        /\ last.resp.ok = True

\* C9: the sensor_data GET /api/data returns is _sensor_data as the ingest and
\* control calls before it left it.
C9_DataServesStore ==
    last.op = "get_data" => last.resp.sensor_data = _sensor_data

\* C10: the system_status GET /api/data returns carries the auto_mode of
\* _system_status as the control calls before it left it.
C10_DataServesAutoMode ==
    last.op = "get_data" =>
        last.resp.system_status["auto_mode"] = _system_status["auto_mode"]


\* C13: GET /api/data and GET /api/history leave _sensor_data, _system_status,
\* _history and the served system_status as they were, wherever they fall among
\* the ingest and control calls.
C13_QueriesReadOnly ==
    [][ last'.op \in {"get_data", "get_history"} =>
            UNCHANGED <<store, system_status, appended, now>>
      ]_vars

\* a query answered after ingest and control calls had written the store
C13_Witness ==
    /\ last.op = "get_data"
    /\ last.status = 200
    /\ Len(_history) = 2
    /\ _sensor_data["moisture"] = "55"
    /\ _system_status["auto_mode"] = False
    /\ Len(reader_history) = 1

\* C18: an ingest never changes _system_status, also when its payload holds
\* auto_mode or manual_pump; a control never changes _history, moisture,
\* raw_value, threshold_low or threshold_high, also when its payload holds them.
C18_CrossHandlerFrame ==
    [][ /\ last'.op = "ingest" => _system_status' = _system_status
        /\ last'.op = "control" =>
              /\ _history' = _history
              /\ \A k \in SensorKeys \ {"pump_status"} : _sensor_data'[k] = _sensor_data[k]
      ]_vars

\* {"auto_mode": true, "moisture": 42} was accepted by control after
\* {"moisture": 55, "auto_mode": false} had been ingested
C18_Witness ==
    /\ Accepted("control")
    /\ HasKey(last.body, "moisture")
    /\ last.body.map["moisture"] = "42"
    /\ _sensor_data["moisture"] = "55"
    /\ _system_status["auto_mode"] = True
    /\ Len(_history) = 1

\* C19: pump_status changes only when an accepted ingest holds pump_status (to
\* the value as given) or an accepted control holds manual_pump (to its bool()),
\* so it always is what the most recent of those calls wrote; an ingest leaves
\* auto_mode as it is.
C19_PumpLastWriteWins ==
    [][ /\ _sensor_data'["pump_status"] =
              IF last'.op = "ingest" /\ last'.status = 200 /\ HasKey(last'.body, "pump_status")
              THEN last'.body.map["pump_status"]
              ELSE IF last'.op = "control" /\ last'.status = 200
                      /\ HasKey(last'.body, "manual_pump")
              THEN Bool(last'.body.map["manual_pump"])
              ELSE _sensor_data["pump_status"]
        /\ last'.op = "ingest" => _system_status'["auto_mode"] = _system_status["auto_mode"]
      ]_vars

\* {"pump_status": "on"} was ingested in manual mode: the pump state is "on"
\* and auto_mode is still False
C19_Witness ==
    /\ Accepted("ingest")
    /\ HasKey(last.body, "pump_status")
    /\ last.body.map["pump_status"] = "on"
    /\ _sensor_data["pump_status"] = "on"
    /\ _system_status["auto_mode"] = False


\* C16: GET /api/history returns the reader's buffer in full, the history of
\* GET /api/data is its last min(10, length) entries in the same order, and an
\* ingest changes neither the buffer nor the reader's snapshot.
C16_HistoryFromReader ==
    [][ /\ last'.op = "get_history" => last'.resp.history = reader_history'
        /\ last'.op = "get_data" =>
              LET h == last'.resp.history
                  n == Len(reader_history')
                  m == IF n < 10 THEN n ELSE 10
              IN  /\ Len(h) = m
                  /\ \A i \in 1..m : h[i] = reader_history'[n - m + i]
        /\ last'.op = "ingest" => UNCHANGED <<reader_history, reader_data>>
      ]_vars

\* GET /api/data answered with 10 of the reader's 11 readings, after an ingest
C16_Witness ==
    /\ last.op = "get_data"
    /\ Len(reader_history) = 11
    /\ Len(last.resp.history) = 10
    /\ last.resp.history[10] = reader_history[11]
    /\ Len(_history) = 1


\* C14: start_reading is called exactly once, before the server serves a
\* request; whether it returned true or false the server is started, a false
\* result being printed and nothing more.
C14_ServerStartsRegardless ==
    /\ [](main.calls <= 1)
    /\ [](main.pc = "serving" => main.calls = 1)
    /\ [](last.op # "start" => main.pc = "serving")
    /\ []((main.pc \in {"run", "serving"} /\ main.ok = False) =>
             main.printed[1] = "Failed to start Arduino reader")
    /\ <>(main.pc = "serving")

\* start_reading returned false and the server has accepted an ingest
C14_Witness ==
    /\ main.pc = "serving"
    /\ main.ok = False
    /\ main.calls = 1
    /\ Accepted("ingest")


\* the Store a call leaves when it runs alone from the Store `pre`
SerialEffect(op, payload, pre, t) ==
    IF op = "ingest"
    THEN LET sd == ApplySensorUpdate(pre[1], payload)
         IN  <<sd, pre[2], AppendHistory(pre[3], HistoryEntry(t, sd))>>
    ELSE LET r == ApplyControl(pre[2], pre[1], payload)
         IN  <<r[2], r[1], pre[3]>>

\* C11: at most one call is inside its `with _lock:` block; the Store changes
\* only by a step of the call holding the lock; and the Store a call leaves at
\* release is the Store it found at acquire with that call alone applied, so
\* the calls take effect one after another in the order they took the lock.
C11_MutualExclusion ==
    /\ [](Cardinality({t \in Threads : th[t].pc = "locked"}) <= 1)
    /\ [](\A t \in Threads : th[t].pc = "locked" => _lock = t)
    /\ [][store' # store =>
            /\ _lock \in Threads
            /\ th[_lock].pc = "locked"
            /\ \A u \in Threads \ {_lock} : th'[u] = th[u]]_vars
    /\ [](\A t \in Threads :
            (th[t].pc \in {"respond", "done"} /\ th[t].status = 200) =>
                th[t].post = SerialEffect(th[t].op, get_json(th[t].body), th[t].pre,
                                          IF th[t].op = "ingest"
                                          THEN th[t].post[3][Len(th[t].post[3])].timestamp
                                          ELSE 0))

\* a call is in the middle of its writes while another waits for the lock
C11_Witness ==
    \E t, u \in Threads :
        /\ th[t].pc = "locked"
        /\ th[t].i = 1
        /\ Len(Writes(th[t].op, get_json(th[t].body))) > 1
        /\ th[u].pc = "wait"

\* C12 (as claimed): the acknowledgement of an accepted control call shows the
\* SystemStatus and SensorSnapshot its own update left.
C12_AckIsOwnResult ==
    \A t \in Threads :
        (th[t].pc = "done" /\ th[t].op = "control" /\ th[t].status = 200) =>
            /\ th[t].resp.system_status = th[t].post[2]
            /\ th[t].resp.sensor_data = th[t].post[1]

\* C15: the step that appends for an ingest call appends one entry, whose
\* moisture is the payload's when it has the key and otherwise the one stored
\* when the call took the lock, which is also the stored moisture at that
\* moment; an accepted ingest has appended exactly once when it answers.
C15_UpdateThenAppend ==
    /\ [][\A t \in Threads :
            (th[t].appends = 0 /\ th'[t].appends = 1) =>
                /\ Len(appended') = Len(appended) + 1
                /\ _history'[Len(_history')] = appended'[Len(appended')]
                /\ _history'[Len(_history')].moisture =
                       IF HasKey(th[t].body, "moisture")
                       THEN th[t].body.map["moisture"]
                       ELSE th[t].pre[1]["moisture"]
                /\ _history'[Len(_history')].moisture = _sensor_data'["moisture"]]_vars
    /\ [](\A t \in Threads :
            (th[t].op = "ingest" /\ th[t].status = 200) => th[t].appends = 1)
    /\ [](Len(appended) = Cardinality({t \in Threads : th[t].appends = 1}))

\* an ingest without moisture has appended the moisture an earlier call stored
C15_Witness ==
    \E t \in Threads :
        /\ th[t].op = "ingest"
        /\ th[t].appends = 1
        /\ ~HasKey(th[t].body, "moisture")
        /\ th[t].pre[1]["moisture"] # None
        /\ _history[Len(_history)].moisture = th[t].pre[1]["moisture"]

\* C17: a call waiting for the lock gets it, a call holding it releases it,
\* and every request that arrived is answered.
C17_NoBlocking ==
    \A t \in Threads :
        /\ (th[t].pc = "wait") ~> (th[t].pc = "locked")
        /\ (_lock = t) ~> (_lock # t)
        /\ (th[t].pc # "idle") ~> (th[t].pc = "done")

\* every request is answered, one of them after a TypeError inside the block
C17_Witness ==
    /\ \A t \in Threads : th[t].pc = "done"
    /\ \E t \in Threads : th[t].status = 500
    /\ \E t \in Threads : th[t].status = 200

====
